---- MODULE Spec2Model ----
(***************************************************************************)
(* RuuviTag BLE sensor platform                                            *)
(* (homeassistant/components/ruuvitag_ble/sensor.py).                      *)
(*                                                                         *)
(* The module models the measurement-to-entity table, the conversion of a  *)
(* decoded SensorUpdate into a PassiveBluetoothDataUpdate, the setup hook  *)
(* and the sensor entity's native_value.                                   *)
(*                                                                         *)
(* Python values are modelled as follows: None is the string "None"; a     *)
(* str is a string; an int/float reading is an opaque token (a string such *)
(* as "21.5", the code never computes with readings); a dict is a function *)
(* whose DOMAIN is the dict's key set; a dataclass is a record, except     *)
(* PassiveBluetoothEntityKey, which is the tuple <<key, device_id>> of its *)
(* positional constructor arguments, so that a DeviceKey and the entity    *)
(* key built from it are values of different shapes; a call's outcome is a *)
(* record that tells a returned value from a raised exception.             *)
(***************************************************************************)
EXTENDS Integers, FiniteSets, Sequences, TLC

None == "None"

(***************************************************************************)
(* Enumerations and constants imported by the file.                        *)
(***************************************************************************)
SensorDeviceClass_TEMPERATURE == "temperature"
SensorDeviceClass_HUMIDITY == "humidity"
SensorDeviceClass_PRESSURE == "pressure"
SensorDeviceClass_VOLTAGE == "voltage"
SensorDeviceClass_SIGNAL_STRENGTH == "signal_strength"
SensorDeviceClass_COUNT == "count"
\* a member of the decoder's enumeration for which the table has no entry
SensorDeviceClass_BATTERY == "battery"

Units_TEMP_CELSIUS == "°C"
Units_PERCENTAGE == "%"
Units_PRESSURE_HPA == "hPa"
Units_ELECTRIC_POTENTIAL_MILLIVOLT == "mV"
Units_SIGNAL_STRENGTH_DECIBELS_MILLIWATT == "dBm"

const_TEMP_CELSIUS == "°C"
const_PERCENTAGE == "%"
const_PRESSURE_HPA == "hPa"
const_ELECTRIC_POTENTIAL_MILLIVOLT == "mV"
const_SIGNAL_STRENGTH_DECIBELS_MILLIWATT == "dBm"

SensorStateClass_MEASUREMENT == "measurement"

SensorDeviceClass ==
    { SensorDeviceClass_TEMPERATURE, SensorDeviceClass_HUMIDITY,
      SensorDeviceClass_PRESSURE, SensorDeviceClass_VOLTAGE,
      SensorDeviceClass_SIGNAL_STRENGTH, SensorDeviceClass_COUNT,
      SensorDeviceClass_BATTERY }

Units ==
    { Units_TEMP_CELSIUS, Units_PERCENTAGE, Units_PRESSURE_HPA,
      Units_ELECTRIC_POTENTIAL_MILLIVOLT,
      Units_SIGNAL_STRENGTH_DECIBELS_MILLIWATT }

(***************************************************************************)
(* Data classes.                                                           *)
(***************************************************************************)
SensorEntityDescription(key, device_class, native_unit_of_measurement, state_class, entity_registry_enabled_default) ==
    [ key |-> key,
      device_class |-> device_class,
      native_unit_of_measurement |-> native_unit_of_measurement,
      state_class |-> state_class,
      entity_registry_enabled_default |-> entity_registry_enabled_default ]

DeviceKey(key, device_id) == [ key |-> key, device_id |-> device_id ]

PassiveBluetoothEntityKey(key, device_id) == << key, device_id >>

SensorDescription(device_class, native_unit_of_measurement) ==
    [ device_class |-> device_class,
      native_unit_of_measurement |-> native_unit_of_measurement ]

SensorValue(name, native_value) ==
    [ name |-> name, native_value |-> native_value ]

SensorDeviceInfo(name, model) == [ name |-> name, model |-> model ]

SensorUpdate(devices, entity_descriptions, entity_values) ==
    [ devices |-> devices,
      entity_descriptions |-> entity_descriptions,
      entity_values |-> entity_values ]

\* variant: an f-string without its braces, the same key for every entry
FormatKey_constant(device_class, unit) == "device_class_unit"

\* f"{device_class}_{unit}" on two members of string enumerations
FormatKey(device_class, unit) == device_class \o "_" \o unit

\* defaults of the fields a SensorEntityDescription(...) call leaves out
Default_native_unit_of_measurement == None
Default_entity_registry_enabled_default == TRUE

(***************************************************************************)
(* The measurement-to-entity table as built when the module is loaded.     *)
(* Fields the source leaves out take the data class's defaults.            *)
(***************************************************************************)
SensorDescriptionsAtLoad ==
    ( << SensorDeviceClass_TEMPERATURE, Units_TEMP_CELSIUS >> :>
        SensorEntityDescription(
            FormatKey(SensorDeviceClass_TEMPERATURE, Units_TEMP_CELSIUS),
            SensorDeviceClass_TEMPERATURE, const_TEMP_CELSIUS,
            SensorStateClass_MEASUREMENT,
            Default_entity_registry_enabled_default) )
    @@
    ( << SensorDeviceClass_HUMIDITY, Units_PERCENTAGE >> :>
        SensorEntityDescription(
            FormatKey(SensorDeviceClass_HUMIDITY, Units_PERCENTAGE),
            SensorDeviceClass_HUMIDITY, const_PERCENTAGE,
            SensorStateClass_MEASUREMENT,
            Default_entity_registry_enabled_default) )
    @@
    ( << SensorDeviceClass_PRESSURE, Units_PRESSURE_HPA >> :>
        SensorEntityDescription(
            FormatKey(SensorDeviceClass_PRESSURE, Units_PRESSURE_HPA),
            SensorDeviceClass_PRESSURE, const_PRESSURE_HPA,
            SensorStateClass_MEASUREMENT,
            Default_entity_registry_enabled_default) )
    @@
    ( << SensorDeviceClass_VOLTAGE, Units_ELECTRIC_POTENTIAL_MILLIVOLT >> :>
        SensorEntityDescription(
            FormatKey(SensorDeviceClass_VOLTAGE,
                      Units_ELECTRIC_POTENTIAL_MILLIVOLT),
            SensorDeviceClass_VOLTAGE, const_ELECTRIC_POTENTIAL_MILLIVOLT,
            SensorStateClass_MEASUREMENT,
            Default_entity_registry_enabled_default) )
    @@
    ( << SensorDeviceClass_SIGNAL_STRENGTH,
         Units_SIGNAL_STRENGTH_DECIBELS_MILLIWATT >> :>
        SensorEntityDescription(
            FormatKey(SensorDeviceClass_SIGNAL_STRENGTH,
                      Units_SIGNAL_STRENGTH_DECIBELS_MILLIWATT),
            SensorDeviceClass_SIGNAL_STRENGTH,
            const_SIGNAL_STRENGTH_DECIBELS_MILLIWATT,
            SensorStateClass_MEASUREMENT, FALSE) )
    @@
    ( << SensorDeviceClass_COUNT, None >> :>
        SensorEntityDescription(
            "movement_counter",
            SensorDeviceClass_COUNT, Default_native_unit_of_measurement,
            SensorStateClass_MEASUREMENT, FALSE) )

(***************************************************************************)
(* State.                                                                  *)
(*   SENSOR_DESCRIPTIONS    the module-level table (a dict, hence mutable) *)
(*   sensor_update          the SensorUpdate object most recently handed   *)
(*                          to the converter, as it is after the call      *)
(*   call                   record of the most recent conversion: the      *)
(*                          argument as it was passed and the outcome      *)
(*   processor              the PassiveBluetoothDataProcessor's dicts      *)
(*   entity_listeners       entity listeners added to the processor        *)
(*   coordinator_processors processors registered with the coordinator     *)
(*   entry_on_unload        callbacks handed to entry.async_on_unload      *)
(*   entry_state            life cycle of the configuration entry          *)
(*   entities               entity keys for which an entity was added      *)
(*   latest                 history: per entity key, the value carried by  *)
(*                          the most recent converted update with that key *)
(*   adv_after_unload       history: an advertisement arrived after unload *)
(***************************************************************************)
VARIABLES SENSOR_DESCRIPTIONS, sensor_update, call, processor,
          entity_listeners, coordinator_processors, entry_on_unload,
          entry_state, entities, latest, adv_after_unload

vars == << SENSOR_DESCRIPTIONS, sensor_update, call, processor,
           entity_listeners, coordinator_processors, entry_on_unload,
           entry_state, entities, latest, adv_after_unload >>

(***************************************************************************)
(* Outcomes of a call.                                                     *)
(***************************************************************************)
NoCall == [ outcome |-> "none" ]
Raise(argument, exception) ==
    [ outcome |-> "raised", argument |-> argument, exception |-> exception ]
Return(argument, value) ==
    [ outcome |-> "returned", argument |-> argument, value |-> value ]

AssertionError == << "AssertionError" >>

PassiveBluetoothDataUpdate(devices, entity_descriptions, entity_data, entity_names) ==
    [ devices |-> devices,
      entity_descriptions |-> entity_descriptions,
      entity_data |-> entity_data,
      entity_names |-> entity_names ]

(***************************************************************************)
(* Conversion functions.                                                   *)
(***************************************************************************)
\* variant: the device id is not carried over
_device_key_to_bluetooth_entity_key_no_device_id(device_key) ==
    PassiveBluetoothEntityKey(device_key.key, None)

_device_key_to_bluetooth_entity_key(device_key) ==
    PassiveBluetoothEntityKey(device_key.key, device_key.device_id)

\* variant: the assertion also demands a unit
_to_sensor_key_requires_unit(description) ==
    IF description.device_class = None
       \/ description.native_unit_of_measurement = None
    THEN AssertionError
    ELSE << description.device_class,
            description.native_unit_of_measurement >>

\* The tuple (device_class, unit); the failed assertion is the value
\* AssertionError, which is not a key of any table.
_to_sensor_key(description) ==
    IF description.device_class = None
    THEN AssertionError
    ELSE << description.device_class,
            description.native_unit_of_measurement >>

\* The platform's adapter: a DeviceInfo dict holding the attributes of the
\* decoder's device info that are set.
sensor_device_info_to_hass_device_info(device_info) ==
    [ attr \in { a \in DOMAIN device_info : device_info[a] # None } |->
        device_info[attr] ]

\* The keys of { _device_key_to_bluetooth_entity_key(k): ... for k in keys }
\* and, for one of them, the device key whose entry the dict holds.  Were
\* two device keys to yield one entity key, Python keeps the entry iterated
\* last; the model then keeps one of the two.
ComprehensionKeys(device_keys) ==
    { _device_key_to_bluetooth_entity_key(device_key) :
        device_key \in device_keys }

ComprehensionSource(device_keys, entity_key) ==
    CHOOSE device_key \in device_keys :
        _device_key_to_bluetooth_entity_key(device_key) = entity_key

\* variant: only the devices that have a description of the table
ConvertedDevices_described_only(update) ==
    LET Described ==
            { device_key.device_id :
                device_key \in
                    { k \in DOMAIN update.entity_descriptions :
                        _to_sensor_key(update.entity_descriptions[k])
                            \in DOMAIN SENSOR_DESCRIPTIONS } }
    IN  [ device_id \in DOMAIN update.devices \cap Described |->
            sensor_device_info_to_hass_device_info(
                update.devices[device_id]) ]

\* devices={...}, lines 99-102
ConvertedDevices(update) ==
    [ device_id \in DOMAIN update.devices |->
        sensor_device_info_to_hass_device_info(update.devices[device_id]) ]

\* variant: the filter tests the unit's truth value, not table membership
ConvertedEntityDescriptions_truthy_unit(update) ==
    LET Description(device_key) == update.entity_descriptions[device_key]
        Kept == { device_key \in DOMAIN update.entity_descriptions :
                    /\ _to_sensor_key(Description(device_key))
                          \in DOMAIN SENSOR_DESCRIPTIONS
                    /\ Description(device_key).native_unit_of_measurement
                          # None }
    IN  [ entity_key \in ComprehensionKeys(Kept) |->
            SENSOR_DESCRIPTIONS[
                _to_sensor_key(
                    Description(ComprehensionSource(Kept, entity_key)))] ]

\* entity_descriptions={...}, lines 103-109
ConvertedEntityDescriptions(update) ==
    LET Description(device_key) == update.entity_descriptions[device_key]
        Kept == { device_key \in DOMAIN update.entity_descriptions :
                    _to_sensor_key(Description(device_key))
                        \in DOMAIN SENSOR_DESCRIPTIONS }
    IN  [ entity_key \in ComprehensionKeys(Kept) |->
            SENSOR_DESCRIPTIONS[
                _to_sensor_key(
                    Description(ComprehensionSource(Kept, entity_key)))] ]

\* variant: the values are filtered by the table like the descriptions
ConvertedEntityData_filtered(update) ==
    LET NativeValue(device_key) ==
            update.entity_values[device_key].native_value
        Kept == { device_key \in DOMAIN update.entity_values :
                    /\ device_key \in DOMAIN update.entity_descriptions
                    /\ _to_sensor_key(update.entity_descriptions[device_key])
                          \in DOMAIN SENSOR_DESCRIPTIONS }
    IN  [ entity_key \in ComprehensionKeys(Kept) |->
            NativeValue(ComprehensionSource(Kept, entity_key)) ]

\* entity_data={...}, lines 110-113
ConvertedEntityData(update) ==
    LET NativeValue(device_key) ==
            update.entity_values[device_key].native_value
    IN  [ entity_key \in ComprehensionKeys(DOMAIN update.entity_values) |->
            NativeValue(ComprehensionSource(DOMAIN update.entity_values,
                                            entity_key)) ]

\* variant: names only for the entity keys that have a description
ConvertedEntityNames_filtered(update) ==
    LET Name(device_key) == update.entity_values[device_key].name
        Kept == { device_key \in DOMAIN update.entity_values :
                    /\ device_key \in DOMAIN update.entity_descriptions
                    /\ _to_sensor_key(update.entity_descriptions[device_key])
                          \in DOMAIN SENSOR_DESCRIPTIONS }
    IN  [ entity_key \in ComprehensionKeys(Kept) |->
            Name(ComprehensionSource(Kept, entity_key)) ]

\* entity_names={...}, lines 114-117
ConvertedEntityNames(update) ==
    LET Name(device_key) == update.entity_values[device_key].name
    IN  [ entity_key \in ComprehensionKeys(DOMAIN update.entity_values) |->
            Name(ComprehensionSource(DOMAIN update.entity_values,
                                     entity_key)) ]

\* The assertion of _to_sensor_key fails on the first description without a
\* device class that the comprehension of lines 103-109 visits; the
\* exception leaves the function.
sensor_update_to_bluetooth_data_update(update) ==
    IF \E device_key \in DOMAIN update.entity_descriptions :
          _to_sensor_key(update.entity_descriptions[device_key])
              = AssertionError
    THEN Raise(update, AssertionError)
    ELSE Return(update,
                PassiveBluetoothDataUpdate(
                    ConvertedDevices(update),
                    ConvertedEntityDescriptions(update),
                    ConvertedEntityData(update),
                    ConvertedEntityNames(update)))

\* variant: the lookup removes the entry it reads (dict.pop)
Call_sensor_update_to_bluetooth_data_update_popping(update) ==
    /\ call' = sensor_update_to_bluetooth_data_update(update)
    /\ sensor_update' = update
    /\ SENSOR_DESCRIPTIONS' =
          [ pair \in DOMAIN SENSOR_DESCRIPTIONS \
                { _to_sensor_key(update.entity_descriptions[device_key]) :
                    device_key \in DOMAIN update.entity_descriptions } |->
              SENSOR_DESCRIPTIONS[pair] ]

\* One invocation of the converter by the processor: the outcome is
\* recorded; the argument object and the table are only read.
Call_sensor_update_to_bluetooth_data_update(update) ==
    /\ call' = sensor_update_to_bluetooth_data_update(update)
    /\ sensor_update' = update
    /\ SENSOR_DESCRIPTIONS' = SENSOR_DESCRIPTIONS

(***************************************************************************)
(* The sensor entity.                                                      *)
(***************************************************************************)
\* variant: .get(self.entity_key, 0)
native_value_default_zero(entity_key) ==
    IF entity_key \in DOMAIN processor.entity_data
    THEN processor.entity_data[entity_key]
    ELSE "0"

\* self.processor.entity_data.get(self.entity_key)
native_value(entity_key) ==
    IF entity_key \in DOMAIN processor.entity_data
    THEN processor.entity_data[entity_key]
    ELSE None

(***************************************************************************)
(* Inputs.                                                                 *)
(***************************************************************************)
\* most device keys one update's descriptions and values cover together
MaxEntries == 2

KeyNames == { "temperature", "movement_counter" }
DeviceIds == { None, "dev1" }
DeviceKeys == { DeviceKey(k, d) : k \in KeyNames, d \in DeviceIds }
EntityKeys == { PassiveBluetoothEntityKey(k, d) : k \in KeyNames, d \in DeviceIds }

\* every description the decoder's types allow
AllDescriptions ==
    { SensorDescription(c, u) :
        c \in SensorDeviceClass \cup {None}, u \in Units \cup {None} }

\* one description of each fate: in the table with a unit, in the table
\* without a unit, not in the table, without a device class
SomeDescriptions ==
    { SensorDescription(SensorDeviceClass_TEMPERATURE, Units_TEMP_CELSIUS),
      SensorDescription(SensorDeviceClass_COUNT, None),
      SensorDescription(SensorDeviceClass_COUNT, Units_PERCENTAGE),
      SensorDescription(None, Units_TEMP_CELSIUS) }

SensorValues ==
    { SensorValue("Temperature", "21.5"),
      SensorValue("Movement counter", "0"),
      SensorValue("Movement counter", None) }

SensorDeviceInfos ==
    { SensorDeviceInfo("RuuviTag 1A2B", "RuuviTag"),
      SensorDeviceInfo("RuuviTag 1A2B", None) }

\* the dicts with at most n keys from K and values from V
Dicts(K, V, n) ==
    UNION { [ D -> V ] : D \in { S \in SUBSET K : Cardinality(S) <= n } }

DeviceDicts == Dicts(DeviceIds, SensorDeviceInfos, Cardinality(DeviceIds))

\* pairs <<entity_descriptions, entity_values>> covering at most n device keys
EntriesOver(descriptions, n) ==
    { e \in Dicts(DeviceKeys, descriptions, n)
                \X Dicts(DeviceKeys, SensorValues, n) :
        Cardinality(DOMAIN e[1] \cup DOMAIN e[2]) <= n }

\* updates with one entry of any description, and updates with up to
\* MaxEntries entries that mix the fates
IsInput(update) ==
    \E devices \in DeviceDicts :
        \/ \E e \in EntriesOver(AllDescriptions, 1) :
              update = SensorUpdate(devices, e[1], e[2])
        \/ \E e \in EntriesOver(SomeDescriptions, MaxEntries) :
              update = SensorUpdate(devices, e[1], e[2])

EmptyDict == << >>

EmptyProcessor ==
    [ devices |-> EmptyDict, entity_descriptions |-> EmptyDict,
      entity_data |-> EmptyDict, entity_names |-> EmptyDict ]

(***************************************************************************)
(* Specification of the converter alone: any update, converted once.      *)
(***************************************************************************)
InitConv ==
    /\ SENSOR_DESCRIPTIONS = SensorDescriptionsAtLoad
    /\ IsInput(sensor_update)
    /\ call = NoCall
    /\ processor = EmptyProcessor
    /\ entity_listeners = {}
    /\ coordinator_processors = {}
    /\ entry_on_unload = {}
    /\ entry_state = "not_loaded"
    /\ entities = {}
    /\ latest = EmptyDict
    /\ adv_after_unload = FALSE

Convert ==
    /\ call = NoCall
    /\ Call_sensor_update_to_bluetooth_data_update(sensor_update)
    /\ UNCHANGED << processor, entity_listeners, coordinator_processors,
                    entry_on_unload, entry_state, entities, latest,
                    adv_after_unload >>

NextConv == Convert

SpecConv == InitConv /\ [][NextConv]_vars

(***************************************************************************)
(* Specification of the platform: setup, advertisements, unload.          *)
(***************************************************************************)
\* the device keys of a single RuuviTag, which has no sub-devices
AdvertisedKeys == { DeviceKey(k, None) : k \in KeyNames }

AdvertisedDevices == None :> SensorDeviceInfo("RuuviTag 1A2B", "RuuviTag")

\* an advertisement decodes to an update with at most one description and
\* at most one value, for one device key
Advertisements ==
    { u \in [ devices : { AdvertisedDevices },
              entity_descriptions :
                  Dicts(AdvertisedKeys, SomeDescriptions, 1),
              entity_values : Dicts(AdvertisedKeys, SensorValues, 1) ] :
        Cardinality(DOMAIN u.entity_descriptions
                        \cup DOMAIN u.entity_values) <= 1 }

Init ==
    /\ SENSOR_DESCRIPTIONS = SensorDescriptionsAtLoad
    /\ sensor_update = SensorUpdate(EmptyDict, EmptyDict, EmptyDict)
    /\ call = NoCall
    /\ processor = EmptyProcessor
    /\ entity_listeners = {}
    /\ coordinator_processors = {}
    /\ entry_on_unload = {}
    /\ entry_state = "not_loaded"
    /\ entities = {}
    /\ latest = EmptyDict
    /\ adv_after_unload = FALSE

\* variant: the callback that unregisters the processor is not handed to
\* the entry
async_setup_entry_keeps_registration ==
    /\ entry_state = "not_loaded"
    /\ processor' = EmptyProcessor
    /\ entity_listeners' = { "RuuvitagBluetoothSensorEntity" }
    /\ coordinator_processors' = { "processor" }
    /\ entry_on_unload' = entry_on_unload \cup { "remove_entity_listener" }
    /\ entry_state' = "loaded"
    /\ UNCHANGED << SENSOR_DESCRIPTIONS, sensor_update, call, entities,
                    latest, adv_after_unload >>

\* async_setup_entry: a new processor around the converter; the entity
\* listener is added to it and it is registered with the coordinator; the
\* two removal callbacks go to entry.async_on_unload.
async_setup_entry ==
    /\ entry_state = "not_loaded"
    /\ processor' = EmptyProcessor
    /\ entity_listeners' = { "RuuvitagBluetoothSensorEntity" }
    /\ coordinator_processors' = { "processor" }
    /\ entry_on_unload' =
           entry_on_unload \cup { "remove_entity_listener",
                                  "unregister_processor" }
    /\ entry_state' = "loaded"
    /\ UNCHANGED << SENSOR_DESCRIPTIONS, sensor_update, call, entities,
                    latest, adv_after_unload >>

\* The entry unloads: the framework runs every callback handed to
\* async_on_unload.
async_unload_entry ==
    /\ entry_state = "loaded"
    /\ entity_listeners' =
           IF "remove_entity_listener" \in entry_on_unload
           THEN {} ELSE entity_listeners
    /\ coordinator_processors' =
           IF "unregister_processor" \in entry_on_unload
           THEN {} ELSE coordinator_processors
    /\ entry_on_unload' = {}
    /\ entry_state' = "unloaded"
    /\ UNCHANGED << SENSOR_DESCRIPTIONS, sensor_update, call, processor,
                    entities, latest, adv_after_unload >>

\* new entries replace old ones: dict.update
DictUpdate(old, new) == new @@ old

\* The coordinator receives a decoded advertisement and hands it to every
\* registered processor.  The processor converts it; an exception of the
\* converter is logged and the update discarded; a returned update is
\* merged into the processor's dicts and the entity listeners add an entity
\* for every described entity key.
Advertisement(update) ==
    /\ adv_after_unload' = (adv_after_unload \/ entry_state = "unloaded")
    /\ IF coordinator_processors = {}
       THEN UNCHANGED << SENSOR_DESCRIPTIONS, sensor_update, call,
                         processor, entities, latest >>
       ELSE /\ Call_sensor_update_to_bluetooth_data_update(update)
            /\ IF call'.outcome = "returned"
               THEN /\ processor' =
                          [ devices |->
                              DictUpdate(processor.devices,
                                         call'.value.devices),
                            entity_descriptions |->
                              DictUpdate(processor.entity_descriptions,
                                         call'.value.entity_descriptions),
                            entity_data |->
                              DictUpdate(processor.entity_data,
                                         call'.value.entity_data),
                            entity_names |->
                              DictUpdate(processor.entity_names,
                                         call'.value.entity_names) ]
                    /\ entities' =
                          IF entity_listeners = {}
                          THEN entities
                          ELSE entities \cup
                                 DOMAIN call'.value.entity_descriptions
                    /\ latest' =
                          [ entity_key \in DOMAIN latest
                                \cup DOMAIN call'.value.entity_data |->
                              IF entity_key \in DOMAIN call'.value.entity_data
                              THEN call'.value.entity_data[entity_key]
                              ELSE latest[entity_key] ]
               ELSE UNCHANGED << processor, entities, latest >>
    /\ UNCHANGED << entity_listeners, coordinator_processors,
                    entry_on_unload, entry_state >>

Next ==
    \/ async_setup_entry
    \/ async_unload_entry
    \/ \E update \in Advertisements : Advertisement(update)

Spec == Init /\ [][Next]_vars

(***************************************************************************)
(* Properties.                                                             *)
(***************************************************************************)
Called == call.outcome # "none"
Returned == call.outcome = "returned"
InTable(description) ==
    description.device_class # None
    /\ << description.device_class, description.native_unit_of_measurement >>
           \in DOMAIN SENSOR_DESCRIPTIONS

\* C1: an update whose entity_descriptions holds one device key with a
\* (device class, unit) pair of the table converts to an entity_descriptions
\* mapping with exactly one entry: the translated entity key, mapped to the
\* table's description for that pair, whose device class and unit are the
\* pair's.
C1_TablePairYieldsItsDescription ==
    \A device_key \in DeviceKeys :
        ( /\ Called
          /\ DOMAIN call.argument.entity_descriptions = { device_key }
          /\ InTable(call.argument.entity_descriptions[device_key]) )
        =>
        LET description == call.argument.entity_descriptions[device_key]
            pair == << description.device_class,
                       description.native_unit_of_measurement >>
            entity_key == PassiveBluetoothEntityKey(device_key.key,
                                                    device_key.device_id)
        IN  /\ Returned
            /\ DOMAIN call.value.entity_descriptions = { entity_key }
            /\ call.value.entity_descriptions[entity_key]
                   = SENSOR_DESCRIPTIONS[pair]
            /\ call.value.entity_descriptions[entity_key].device_class
                   = pair[1]
            /\ call.value.entity_descriptions[entity_key]
                   .native_unit_of_measurement = pair[2]

C1_Witness ==
    /\ Returned
    /\ \E device_key \in DeviceKeys :
          /\ DOMAIN call.argument.entity_descriptions = { device_key }
          /\ call.argument.entity_descriptions[device_key]
                = SensorDescription(SensorDeviceClass_COUNT, None)
          /\ Cardinality(DOMAIN call.value.entity_descriptions) = 1

\* C2: in a returned update, the entity key of every device key whose
\* description's (device class, unit) pair is not in the table is absent
\* from entity_descriptions, and the value recorded for that device key in
\* entity_values is in entity_data, unchanged.
C2_UnsupportedDroppedValueKept ==
    Returned =>
    \A device_key \in DOMAIN call.argument.entity_descriptions :
        ~ InTable(call.argument.entity_descriptions[device_key])
        =>
        LET entity_key == PassiveBluetoothEntityKey(device_key.key,
                                                    device_key.device_id)
        IN  /\ entity_key \notin DOMAIN call.value.entity_descriptions
            /\ device_key \in DOMAIN call.argument.entity_values
                 => /\ entity_key \in DOMAIN call.value.entity_data
                    /\ call.value.entity_data[entity_key]
                         = call.argument.entity_values[device_key]
                              .native_value

C2_Witness ==
    /\ Returned
    /\ \E device_key \in DOMAIN call.argument.entity_descriptions :
          /\ call.argument.entity_descriptions[device_key]
                = SensorDescription(SensorDeviceClass_COUNT,
                                    Units_PERCENTAGE)
          /\ device_key \in DOMAIN call.argument.entity_values
          /\ call.argument.entity_values[device_key].native_value = "0"
          /\ DOMAIN call.value.entity_descriptions # {}

\* C3: the entity key translated from a device key carries the device
\* key's key and device id, the device key is recovered from it, two
\* distinct device keys translate to distinct entity keys, and so a
\* returned update has as many values as the input has, and as many
\* descriptions as the input has descriptions of the table.
C3_KeyTranslationLossless ==
    /\ \A device_key \in DeviceKeys :
          LET entity_key == _device_key_to_bluetooth_entity_key(device_key)
          IN  /\ entity_key[1] = device_key.key
              /\ entity_key[2] = device_key.device_id
              /\ DeviceKey(entity_key[1], entity_key[2]) = device_key
    /\ \A k1, k2 \in DeviceKeys :
          k1 # k2 => _device_key_to_bluetooth_entity_key(k1)
                        # _device_key_to_bluetooth_entity_key(k2)
    /\ Returned =>
          /\ Cardinality(DOMAIN call.value.entity_data)
                = Cardinality(DOMAIN call.argument.entity_values)
          /\ Cardinality(DOMAIN call.value.entity_descriptions)
                = Cardinality(
                    { k \in DOMAIN call.argument.entity_descriptions :
                        InTable(call.argument.entity_descriptions[k]) })

C3_Witness ==
    /\ Returned
    /\ \E k1, k2 \in DOMAIN call.argument.entity_values :
          /\ k1.key = k2.key
          /\ k1.device_id # k2.device_id
          /\ call.value.entity_data[<< k1.key, k1.device_id >>]
                # call.value.entity_data[<< k2.key, k2.device_id >>]

\* C4: native_value of an entity key is the value carried by the most
\* recent converted update that held the key, and None for a key no
\* converted update has held.
C4_NativeValueIsLatestOrNone ==
    \A entity_key \in EntityKeys :
        native_value(entity_key) =
            IF entity_key \in DOMAIN latest
            THEN latest[entity_key]
            ELSE None

\* an entity exists whose key never had a value, while another key has
\* the reading "0"
C4_Witness ==
    /\ \E entity_key \in entities :
          /\ entity_key \notin DOMAIN latest
          /\ native_value(entity_key) = None
    /\ \E entity_key \in DOMAIN latest :
          native_value(entity_key) = "0"

\* C5: while the entry is loaded the entity listener and the processor are
\* registered and both removal callbacks are with the entry; once it is
\* unloaded both are removed, and no step adds an entity or changes the
\* processor's data, so no entity's value.
C5_UnloadRemovesListenerAndProcessor ==
    [][ /\ entry_state = "loaded" =>
            /\ entity_listeners = { "RuuvitagBluetoothSensorEntity" }
            /\ coordinator_processors = { "processor" }
            /\ entry_on_unload = { "remove_entity_listener",
                                   "unregister_processor" }
        /\ entry_state = "unloaded" =>
            /\ entity_listeners = {}
            /\ coordinator_processors = {}
            /\ entities' = entities
            /\ processor' = processor
            /\ \A entity_key \in EntityKeys :
                  native_value(entity_key)' = native_value(entity_key)
      ]_vars

C5_Witness ==
    /\ entry_state = "unloaded"
    /\ adv_after_unload
    /\ entities # {}
    /\ DOMAIN processor.entity_data # {}

\* C6 as stated: every conversion returns an update, whatever the device
\* class of its descriptions, an absent one included.
C6_Original_NoFailurePath ==
    Called => Returned

\* C6 amended: the conversion of an update whose descriptions all carry a
\* device class returns an update, from which the descriptions whose
\* measurement kind is not in the table are dropped.
C6_ReturnsWhenDeviceClassesPresent ==
    ( /\ Called
      /\ \A device_key \in DOMAIN call.argument.entity_descriptions :
            call.argument.entity_descriptions[device_key].device_class
                # None )
    =>
    /\ Returned
    /\ \A device_key \in DOMAIN call.argument.entity_descriptions :
          ~ InTable(call.argument.entity_descriptions[device_key])
          => << device_key.key, device_key.device_id >>
                \notin DOMAIN call.value.entity_descriptions

C6_Witness ==
    /\ Returned
    /\ \E device_key \in DOMAIN call.argument.entity_descriptions :
          /\ call.argument.entity_descriptions[device_key].device_class
                = SensorDeviceClass_BATTERY
          /\ call.value.entity_descriptions = EmptyDict

\* C7: the table is the one built at load in every state, the argument of
\* a conversion is after it what it was when passed, and converting again
\* the update converted last has the same outcome.
C7_TableAndInputUnchanged ==
    /\ [](/\ SENSOR_DESCRIPTIONS = SensorDescriptionsAtLoad
          /\ Called => sensor_update = call.argument)
    /\ [][ ( /\ Called
             /\ call'.outcome # "none"
             /\ call'.argument = call.argument )
           => call' = call ]_vars

\* after setup, at least two conversions and unload
C7_Witness ==
    /\ entry_state = "unloaded"
    /\ Returned
    /\ Cardinality(DOMAIN latest) = 2
    /\ DOMAIN call.value.entity_descriptions # {}

\* C8: in a returned update entity_data and entity_names have the same key
\* set, the entity keys translated from the keys of entity_values; each
\* entry is the native value, respectively the name, of the input entry,
\* whether or not the table has a description for it.
C8_ValuesAndNamesUnfiltered ==
    Returned =>
    /\ DOMAIN call.value.entity_data = DOMAIN call.value.entity_names
    /\ DOMAIN call.value.entity_data =
          { << device_key.key, device_key.device_id >> :
              device_key \in DOMAIN call.argument.entity_values }
    /\ \A device_key \in DOMAIN call.argument.entity_values :
          /\ call.value.entity_data[<< device_key.key,
                                       device_key.device_id >>]
                = call.argument.entity_values[device_key].native_value
          /\ call.value.entity_names[<< device_key.key,
                                        device_key.device_id >>]
                = call.argument.entity_values[device_key].name

\* an entity key with a value and a name and no description
C8_Witness ==
    /\ Returned
    /\ \E entity_key \in DOMAIN call.value.entity_data :
          /\ entity_key \in DOMAIN call.value.entity_names
          /\ entity_key \notin DOMAIN call.value.entity_descriptions
    /\ call.value.entity_descriptions # EmptyDict

\* C9: in a returned update devices has the device ids of the input's
\* devices, each mapped to the adapter's result for that device's info.
C9_DevicesPassedThroughAdapter ==
    Returned =>
    /\ DOMAIN call.value.devices = DOMAIN call.argument.devices
    /\ \A device_id \in DOMAIN call.argument.devices :
          call.value.devices[device_id] =
              sensor_device_info_to_hass_device_info(
                  call.argument.devices[device_id])

\* two devices come through although the update describes no measurement
\* of the table
C9_Witness ==
    /\ Returned
    /\ Cardinality(DOMAIN call.value.devices) = 2
    /\ call.argument.entity_descriptions # EmptyDict
    /\ call.value.entity_descriptions = EmptyDict

\* C10: the table has exactly the six measurement kinds; each entry's
\* device class is its key's; the six description keys are pairwise
\* distinct; signal strength and the movement counter are disabled by
\* default and the other four enabled.
C10_TableContents ==
    /\ DOMAIN SENSOR_DESCRIPTIONS =
          { << SensorDeviceClass_TEMPERATURE, Units_TEMP_CELSIUS >>,
            << SensorDeviceClass_HUMIDITY, Units_PERCENTAGE >>,
            << SensorDeviceClass_PRESSURE, Units_PRESSURE_HPA >>,
            << SensorDeviceClass_VOLTAGE,
               Units_ELECTRIC_POTENTIAL_MILLIVOLT >>,
            << SensorDeviceClass_SIGNAL_STRENGTH,
               Units_SIGNAL_STRENGTH_DECIBELS_MILLIWATT >>,
            << SensorDeviceClass_COUNT, None >> }
    /\ Cardinality(DOMAIN SENSOR_DESCRIPTIONS) = 6
    /\ SENSOR_DESCRIPTIONS[<< SensorDeviceClass_COUNT, None >>].key
          = "movement_counter"
    /\ \A pair \in DOMAIN SENSOR_DESCRIPTIONS :
          SENSOR_DESCRIPTIONS[pair].device_class = pair[1]
    /\ \A p1, p2 \in DOMAIN SENSOR_DESCRIPTIONS :
          p1 # p2 => SENSOR_DESCRIPTIONS[p1].key # SENSOR_DESCRIPTIONS[p2].key
    /\ \A pair \in DOMAIN SENSOR_DESCRIPTIONS :
          SENSOR_DESCRIPTIONS[pair].entity_registry_enabled_default
              = (pair[1] \notin { SensorDeviceClass_SIGNAL_STRENGTH,
                                  SensorDeviceClass_COUNT })

\* a conversion has handed out the signal-strength entry, disabled by default
C10_Witness ==
    /\ Returned
    /\ \E entity_key \in DOMAIN call.value.entity_descriptions :
          /\ call.value.entity_descriptions[entity_key].device_class
                = SensorDeviceClass_SIGNAL_STRENGTH
          /\ ~ call.value.entity_descriptions[entity_key]
                  .entity_registry_enabled_default

====
